---- MODULE Spec2Model ----
(***************************************************************************)
(* Task lifecycle of the image processor API: TaskService.createTask, the  *)
(* background step processImageAsync with its failure boundary, the store  *)
(* writes markTaskAsCompleted / markTaskAsFailed and the read path getTask.*)
(* The Task and Image collections, the scratch directory and the output    *)
(* directory are the shared state; every await of the background step is   *)
(* one action, so the steps of several tasks and of a reader interleave.   *)
(***************************************************************************)
EXTENDS Integers, Sequences, FiniteSets, TLC

\* ---------------------------------------------------------------- bounds
\* distinct identifiers generateTaskId can produce
MaxTasks == 1
\* distinct names generateUniqueFilename can produce
MaxScratch == 2
\* resolution of the modelled Math.random(): draws are k / RandomDenom
RandomDenom == 1000
\* longest base name handed to processImage
MaxNameLen == 3
\* calls of connect
MaxConnects == 3
\* calls of disconnect that await the driver at the same time
MaxDisconnects == 2

\* ------------------------------------------------------------- constants
Undefined == "undefined"

TaskIds == 1..MaxTasks
ScratchName(i) == "photo_" \o ToString(i) \o ".jpg"
ScratchNames == {ScratchName(i) : i \in 1..MaxScratch}

\* resolutions processed by default
Widths == <<1024, 800>>

PriceMin == 5
PriceMax == 50

\* config.maxDownloadSize, in MB, and the same limit in bytes
MaxDownloadSize == 25
SizeLimit == MaxDownloadSize * 1024 * 1024

\* remote resources a request can point at
Urls == {"https://example.com/photo.jpg"}

\* what the server answers for a resource: status, the content-type and
\* content-length headers (a header can be missing) and the bytes of the body
Response(ok, statusText, contentType, hasLength, contentLength, bytes, content) ==
  [ok |-> ok, statusText |-> statusText, contentType |-> contentType,
   hasLength |-> hasLength, contentLength |-> contentLength, bytes |-> bytes,
   content |-> content]

DetailUrls ==
  Urls \cup
  {"https://example.com/missing.jpg", "https://example.com/page.html",
   "https://example.com/untyped", "https://example.com/limit.jpg",
   "https://example.com/over.jpg", "https://example.com/over-undeclared.jpg",
   "https://example.com/over-understated.jpg", "https://example.com/overstated.jpg"}

ResponseOf(url) ==
  CASE url = "https://example.com/photo.jpg" ->
         Response(TRUE, "OK", "image/jpeg", TRUE, 6, 6, "jpeg:/9j/4AAQ")
    [] url = "https://example.com/missing.jpg" ->
         Response(FALSE, "Not Found", "text/html", TRUE, 9, 9, "Not Found")
    [] url = "https://example.com/page.html" ->
         Response(TRUE, "OK", "text/html", TRUE, 6, 6, "<html>")
    [] url = "https://example.com/untyped" ->
         Response(TRUE, "OK", "", TRUE, 6, 6, "jpeg:/9j/4AAQ")
    [] url = "https://example.com/limit.jpg" ->
         Response(TRUE, "OK", "image/jpeg", TRUE, SizeLimit, SizeLimit, "jpeg:/9j/4QAY")
    [] url = "https://example.com/over.jpg" ->
         Response(TRUE, "OK", "image/jpeg", TRUE, SizeLimit + 1, SizeLimit + 1, "jpeg:/9j/4gAo")
    [] url = "https://example.com/over-undeclared.jpg" ->
         Response(TRUE, "OK", "image/jpeg", FALSE, 0, SizeLimit + 1, "jpeg:/9j/4gAo")
    [] url = "https://example.com/over-understated.jpg" ->
         Response(TRUE, "OK", "image/jpeg", TRUE, 6, SizeLimit + 1, "jpeg:/9j/4gAo")
    [] url = "https://example.com/overstated.jpg" ->
         Response(TRUE, "OK", "image/jpeg", TRUE, SizeLimit + 1, 6, "jpeg:/9j/4AAQ")

\* inline payloads: the parts the pattern data:<mime>;base64,<data> looks at
\* and the number of bytes the data decodes to
GoodPayload ==
  [scheme |-> TRUE, mime |-> "image/jpeg", marker |-> TRUE, data |-> "/9j/4AAQ", bytes |-> 6]
NoMarkerPayload ==
  [scheme |-> TRUE, mime |-> "image/jpeg", marker |-> FALSE, data |-> "/9j/4AAQ", bytes |-> 6]
Payloads == {GoodPayload, NoMarkerPayload}

\* payloads of a type that is not allowed, without a type, of exactly the size
\* limit and one byte over it
SvgPayload ==
  [scheme |-> TRUE, mime |-> "image/svg+xml", marker |-> TRUE, data |-> "PHN2Zz48", bytes |-> 6]
NoTypePayload ==
  [scheme |-> TRUE, mime |-> "", marker |-> TRUE, data |-> "/9j/4AAQ", bytes |-> 6]
LimitPayload ==
  [scheme |-> TRUE, mime |-> "image/jpeg", marker |-> TRUE, data |-> "/9j/4QAY", bytes |-> SizeLimit]
OverLimitPayload ==
  [scheme |-> TRUE, mime |-> "image/jpeg", marker |-> TRUE, data |-> "/9j/4gAo", bytes |-> SizeLimit + 1]
DetailPayloads == Payloads \cup {SvgPayload, NoTypePayload, LimitPayload, OverLimitPayload}

\* CreateTaskRequest: a field is present or undefined
Requests ==
  {[hasUrl |-> hu, imageUrl |-> u, hasFile |-> hf, imageFile |-> f] :
     hu \in BOOLEAN, u \in Urls, hf \in BOOLEAN, f \in Payloads}

NormalRequests ==
  {r \in Requests :
     /\ (~r.hasUrl => r.imageUrl = "https://example.com/photo.jpg")
     /\ (~r.hasFile => r.imageFile = GoodPayload)}

\* requests with one source, over every resource and every payload
DetailRequests ==
  {[hasUrl |-> TRUE, imageUrl |-> u, hasFile |-> FALSE, imageFile |-> GoodPayload] :
     u \in DetailUrls}
  \cup
  {[hasUrl |-> FALSE, imageUrl |-> "https://example.com/photo.jpg", hasFile |-> TRUE,
    imageFile |-> f] : f \in DetailPayloads}

\* messages of the errors the store can raise
DbError == "Database error"
DuplicateKeyError == "E11000 duplicate key error collection: tasks index: taskId_1"
PriceValidationError == "Task validation failed: price"
\* message of a failed write of a variant file
WriteError == "ENOSPC: no space left on device, write"

VARIABLES
  tasks,      \* Task collection: taskId -> row, for the rows that exist
  images,     \* Image collection: set of rows
  tempFiles,  \* names of the files in the scratch directory
  outFiles,   \* files in the output directory
  call,       \* the createTask call being served, or the outcome of the last one
  proc,       \* the background step of each task
  get,        \* a getTask call
  fetches,    \* per task: calls made to saveBase64File / downloadFromUrl
  writes,     \* per task: terminal status writes that were applied
  isConnected,        \* MongoConnection.isConnected
  connectionPromise,  \* MongoConnection.connectionPromise: 0 for null, else the run whose promise it is
  runs,               \* the calls of connectWithRetry, in the order they were made
  connects,           \* the calls of connect, in the order they were made, with what each got
  disconnecting,      \* calls of disconnect that await mongoose.disconnect()
  readyState,         \* mongoose.connection.readyState
  lost,               \* the driver lost its connection and is trying to get it back
  handlers            \* the event handlers of connectWithRetry are registered

\* the state of the task service, and the state of the connection manager
serviceVars == <<tasks, images, tempFiles, outFiles, call, proc, get, fetches, writes>>
mongoVars == <<isConnected, connectionPromise, runs, connects, disconnecting, readyState, lost, handlers>>

vars == <<serviceVars, mongoVars>>

\* ------------------------------------------------------------ errors
ValidationError(m) == [name |-> "ValidationError", statusCode |-> 400, message |-> m]
NotFoundError(m) == [name |-> "NotFoundError", statusCode |-> 404, message |-> m \o " not found"]
ProcessingError(m) == [name |-> "ProcessingError", statusCode |-> 500, message |-> m]
FileSystemError(m) == [name |-> "FileSystemError", statusCode |-> 500, message |-> m]
PlainError(m) == [name |-> "Error", statusCode |-> 500, message |-> m]

\* ------------------------------------------------------------ pure parts
\* Math.floor(random * 46) + 5 with random = d / RandomDenom
GenerateRandomPrice(d) == ((d * 46) \div RandomDenom) + 5

\* the draw that is closest to 1
RandomDraws == {RandomDenom - 1}

\* new Task({taskId, status: 'pending', price})
NewTask(taskId, price) ==
  [taskId |-> taskId, status |-> "pending", price |-> price,
   originalPath |-> Undefined, completedAt |-> Undefined, error |-> Undefined]

\* variant of the mapping that loses the price
MapTaskFields_NoPrice(task) ==
  [taskId |-> task.taskId, status |-> task.status, price |-> 0,
   originalPath |-> task.originalPath, completedAt |-> task.completedAt,
   error |-> IF task.error = "" THEN Undefined ELSE task.error]

\* mapTaskToResult without the images field
MapTaskFields(task) ==
  [taskId |-> task.taskId, status |-> task.status, price |-> task.price,
   originalPath |-> task.originalPath, completedAt |-> task.completedAt,
   error |-> IF task.error = "" THEN Undefined ELSE task.error]

\* variant of mapTaskToResult that attaches the list whatever the status
MapTaskToResult_AlwaysImages(task, imgs) ==
  [r \in {"fields", "images"} |->
     IF r = "fields" THEN MapTaskFields(task)
     ELSE {[resolution |-> i.resolution, path |-> i.path, md5 |-> i.md5] : i \in imgs}]

\* mapTaskToResult: images is set only for a completed task
MapTaskToResult(task, imgs) ==
  IF task.status = "completed"
  THEN [r \in {"fields", "images"} |->
          IF r = "fields" THEN MapTaskFields(task)
          ELSE {[resolution |-> i.resolution, path |-> i.path, md5 |-> i.md5] : i \in imgs}]
  ELSE [r \in {"fields"} |-> MapTaskFields(task)]

\* the two checks at the head of createTask
RequestError(r) ==
  IF ~r.hasUrl /\ ~r.hasFile
  THEN "Either imageUrl or imageFile must be provided"
  ELSE IF r.hasUrl /\ r.hasFile
  THEN "Either imageUrl or imageFile must be provided, but not both"
  ELSE Undefined

\* the catch of createTask wraps whatever was thrown
CreateTaskFailure(e) == ProcessingError("Failed to create task: " \o e.message)

IdleCall == [pc |-> "idle"]
\* the request with no field set
NoRequest == [hasUrl |-> FALSE, imageUrl |-> "https://example.com/photo.jpg",
              hasFile |-> FALSE, imageFile |-> GoodPayload]

\* the locals of processImageAsync, before it is called
IdleProc ==
  [pc |-> "idle", request |-> NoRequest, sourcePath |-> Undefined,
   originalName |-> Undefined, processedImages |-> <<>>, error |-> Undefined,
   cleanupPath |-> Undefined]
IdleGet == [pc |-> "idle"]

\* the service before its first call, for the identifiers ids
InitFor(ids) ==
  /\ tasks = <<>>
  /\ images = {}
  /\ tempFiles = {}
  /\ outFiles = {}
  /\ call = IdleCall
  /\ proc = [t \in ids |-> IdleProc]
  /\ get = IdleGet
  /\ fetches = [t \in ids |-> 0]
  /\ writes = [t \in ids |-> 0]
  /\ isConnected = FALSE
  /\ connectionPromise = 0
  /\ runs = <<>>
  /\ connects = <<>>
  /\ disconnecting = 0
  /\ readyState = 0
  /\ lost = FALSE
  /\ handlers = FALSE

Init == InitFor(TaskIds)

\* ------------------------------------------------------------ fetcher
\* the pattern /^data:([^;]+);base64,(.+)$/ and the check of both groups
MatchesBase64(payload) ==
  payload.scheme /\ payload.mime # "" /\ payload.marker /\ payload.data # ""

AllowedImageTypes == {"image/jpeg", "image/png", "image/webp", "image/gif"}

\* the message of the three size checks of the fetcher
SizeExceeded ==
  "File size exceeds maximum allowed size of " \o ToString(MaxDownloadSize) \o "MB"

\* outcomes of saveBase64File: the file is written, or the catch wraps the error
SaveBase64File(payload) ==
  IF ~MatchesBase64(payload)
  THEN {[ok |-> FALSE, error |-> FileSystemError(
          "Failed to save base64 file: Invalid base64 format. Expected data:image/type;base64,data")]}
  ELSE IF payload.mime \notin AllowedImageTypes
  THEN {[ok |-> FALSE, error |-> FileSystemError(
          "Failed to save base64 file: Invalid file type: " \o payload.mime
            \o ". Allowed types: image/jpeg, image/png, image/webp, image/gif")]}
  ELSE IF payload.bytes > SizeLimit
  THEN {[ok |-> FALSE, error |-> FileSystemError("Failed to save base64 file: " \o SizeExceeded)]}
  ELSE {[ok |-> TRUE]}

\* the catch of downloadFromUrl wraps whatever was thrown
DownloadFailure(m) ==
  [ok |-> FALSE, error |-> ProcessingError("Failed to download file from URL: " \o m)]

\* variant of downloadFromUrl that trusts the content-length header
DownloadResponse_TrustsHeader(response) ==
  IF ~response.ok
  THEN DownloadFailure("Failed to download file from URL: " \o response.statusText)
  ELSE IF response.contentType = "" \/ response.contentType \notin AllowedImageTypes
  THEN DownloadFailure("Invalid image type from URL")
  ELSE IF (IF response.hasLength THEN response.contentLength ELSE 0) > SizeLimit
  THEN DownloadFailure(SizeExceeded)
  ELSE [ok |-> TRUE]

\* downloadFromUrl once the response is there: status, content type, declared
\* length, then the length of the bytes received
DownloadResponse(response) ==
  IF ~response.ok
  THEN DownloadFailure("Failed to download file from URL: " \o response.statusText)
  ELSE IF response.contentType = "" \/ response.contentType \notin AllowedImageTypes
  THEN DownloadFailure("Invalid image type from URL")
  ELSE IF (IF response.hasLength THEN response.contentLength ELSE 0) > SizeLimit
  THEN DownloadFailure(SizeExceeded)
  ELSE IF response.bytes > SizeLimit
  THEN DownloadFailure(SizeExceeded)
  ELSE [ok |-> TRUE]

\* outcomes of downloadFromUrl: fetch rejects, or the response is examined
DownloadFromUrl(url) ==
  {DownloadFailure("fetch failed"), DownloadResponse(ResponseOf(url))}

\* the source is taken from imageFile first, then from imageUrl
FetchSource(r) ==
  IF r.hasFile THEN SaveBase64File(r.imageFile)
  ELSE IF r.hasUrl THEN DownloadFromUrl(r.imageUrl)
  ELSE {[ok |-> FALSE, error |-> ValidationError("No image source provided")]}

\* the bytes a request designates: the payload decodes to the photo the URL serves
Content(r) == IF r.hasFile THEN "jpeg:" \o r.imageFile.data ELSE ResponseOf(r.imageUrl).content

\* the size of the file the fetcher writes for a request
SourceBytes(r) == IF r.hasFile THEN r.imageFile.bytes ELSE ResponseOf(r.imageUrl).bytes

TempPath(name) == "temp/" \o name

\* ------------------------------------------------------------ renderer
Resolution(i) == ToString(Widths[i])

\* variant of createImageVariant that numbers its files instead of naming them
\* after their content
ProcessedImage_Numbered(content, originalName, i) ==
  [resolution |-> Resolution(i),
   md5 |-> <<"md5", content, Resolution(i)>>,
   path |-> <<"/output", originalName, Resolution(i), <<"file", Cardinality(outFiles)>>, "jpg">>]

\* the record createImageVariant returns for width i: the file is named after
\* the digest of the bytes rendered from content at that width
ProcessedImage(content, originalName, i) ==
  [resolution |-> Resolution(i),
   md5 |-> <<"md5", content, Resolution(i)>>,
   path |-> <<"/output", originalName, Resolution(i), <<"md5", content, Resolution(i)>>, "jpg">>]

\* characters of a content hash: the hex digest of an MD5 has 32
HexLength(hash) == IF hash[1] = "md5" THEN 32 ELSE 0

\* processImage wraps every error
ProcessImageFailure(m) == ProcessingError("Failed to process image: " \o m)

\* new Image({taskId, resolution, path, md5})
ImageDocument(taskId, img) ==
  [taskId |-> taskId, resolution |-> img.resolution, path |-> img.path, md5 |-> img.md5]

ImagesOf(taskId) == {i \in images : i.taskId = taskId}

\* ------------------------------------------------------------ createTask
\* identifiers without a row are interchangeable: the least one stands for them
FreshOrTaken(id) ==
  \/ id \in DOMAIN tasks
  \/ \A i \in (DOMAIN proc) \ DOMAIN tasks : id <= i

\* an outcome is handed to its caller before anything else is scheduled
Quiet == call.pc = "idle" /\ get.pc # "done"

\* variant of the schema without the unique index on taskId
SaveError_NoUniqueIndex(doc) ==
  IF doc.price < PriceMin \/ doc.price > PriceMax THEN PriceValidationError
  ELSE Undefined

\* the error task.save() raises for this document, if the store accepts the call
SaveError(doc) ==
  IF doc.price < PriceMin \/ doc.price > PriceMax THEN PriceValidationError
  ELSE IF doc.taskId \in DOMAIN tasks THEN DuplicateKeyError
  ELSE Undefined

\* processImageAsync(taskId, request) is called: the background step exists
StartProcessing(r) == [IdleProc EXCEPT !.pc = "fetch", !.request = r]

\* what a caller is left with: the sources it gave, and the value or the error
Given(r) == <<r.hasUrl, r.hasFile>>

\* createTask rejects: the catch wraps the error, nothing else happens
RejectCreate(r, e) ==
  /\ call' = [pc |-> "rejected", given |-> Given(r), error |-> CreateTaskFailure(e)]
  /\ UNCHANGED <<mongoVars, tasks, proc>>

\* createTask after the save: the background step is launched, the row is mapped
AcceptCreate(r, doc) ==
  /\ tasks' = (doc.taskId :> doc) @@ tasks
  /\ proc' = [proc EXCEPT ![doc.taskId] = StartProcessing(r)]
  /\ call' = [pc |-> "returned", given |-> Given(r), result |-> MapTaskToResult(doc, {})]

\* variant of createTask that checks the request only after the save
CreateTask_LateValidation(r) ==
  /\ Quiet
  /\ \E id \in DOMAIN proc, d \in RandomDraws, dbFails \in BOOLEAN :
       LET doc == NewTask(id, GenerateRandomPrice(d)) IN
       /\ FreshOrTaken(id)
       /\ IF SaveError(doc) # Undefined
          THEN RejectCreate(r, PlainError(SaveError(doc)))
          ELSE IF dbFails
          THEN RejectCreate(r, PlainError(DbError))
          ELSE IF RequestError(r) # Undefined
          THEN /\ tasks' = (doc.taskId :> doc) @@ tasks
               /\ proc' = proc
               /\ call' = [pc |-> "rejected", given |-> Given(r),
                           error |-> CreateTaskFailure(ValidationError(RequestError(r)))]
          ELSE AcceptCreate(r, doc)
  /\ UNCHANGED <<mongoVars, images, tempFiles, outFiles, get, fetches, writes>>

\* variant of createTask that launches the background step before the save
CreateTask_LaunchFirst(r) ==
  /\ Quiet
  /\ IF RequestError(r) # Undefined
     THEN RejectCreate(r, ValidationError(RequestError(r)))
     ELSE \E id \in DOMAIN proc, d \in RandomDraws, dbFails \in BOOLEAN :
            LET doc == NewTask(id, GenerateRandomPrice(d)) IN
            /\ FreshOrTaken(id)
            /\ IF SaveError(doc) # Undefined
               THEN RejectCreate(r, PlainError(SaveError(doc)))
               ELSE IF dbFails
               THEN /\ tasks' = tasks
                    /\ proc' = [proc EXCEPT ![id] = StartProcessing(r)]
                    /\ call' = [pc |-> "rejected", given |-> Given(r),
                                error |-> CreateTaskFailure(PlainError(DbError))]
               ELSE AcceptCreate(r, doc)
  /\ UNCHANGED <<mongoVars, images, tempFiles, outFiles, get, fetches, writes>>

\* createTask: validation, then identifier and price, save, launch of the
\* background step; id and d are the draws of generateTaskId and Math.random
CreateTask(r) ==
  /\ Quiet
  /\ IF RequestError(r) # Undefined
     THEN RejectCreate(r, ValidationError(RequestError(r)))
     ELSE \E id \in DOMAIN proc, d \in RandomDraws, dbFails \in BOOLEAN :
            LET doc == NewTask(id, GenerateRandomPrice(d)) IN
            /\ FreshOrTaken(id)
            /\ IF SaveError(doc) # Undefined
               THEN RejectCreate(r, PlainError(SaveError(doc)))
               ELSE IF dbFails
               THEN RejectCreate(r, PlainError(DbError))
               ELSE AcceptCreate(r, doc)
  /\ UNCHANGED <<mongoVars, images, tempFiles, outFiles, get, fetches, writes>>

\* the caller of createTask has its answer
CreateTaskReturn ==
  /\ call.pc # "idle"
  /\ call' = IdleCall
  /\ UNCHANGED <<mongoVars, tasks, images, tempFiles, outFiles, proc, get, fetches, writes>>

\* ------------------------------------------------------------ background step
\* an error thrown inside the try of processImageAsync enters its catch
\* (the locals of the try block are out of scope there)
Throw(t, e) ==
  [proc EXCEPT ![t] = [IdleProc EXCEPT !.pc = "refetch", !.request = proc[t].request,
                                       !.error = e.message]]

\* the background step is over
Finished(t) == [proc EXCEPT ![t] = [IdleProc EXCEPT !.pc = "done"]]

\* names that occur nowhere are interchangeable: the least one stands for them
UsedNames ==
  {n \in ScratchNames :
     \/ TempPath(n) \in tempFiles
     \/ \E t \in DOMAIN tasks : tasks[t].originalPath = TempPath(n)
     \/ \E t \in DOMAIN proc : TempPath(n) \in {proc[t].sourcePath, proc[t].cleanupPath}
     \/ \E f \in outFiles : f[2] = n
     \/ \E i \in images : i.path[2] = n}

FreshOrUsed(name) ==
  \/ name \in UsedNames
  \/ \E k \in 1..MaxScratch :
       name = ScratchName(k) /\ \A j \in 1..(k - 1) : ScratchName(j) \in UsedNames

\* first await of processImageAsync: saveBase64File or downloadFromUrl
Fetch(t, o, name) ==
  /\ Quiet
  /\ proc[t].pc = "fetch"
  /\ o \in FetchSource(proc[t].request)
  /\ FreshOrUsed(name)
  /\ fetches' = [fetches EXCEPT ![t] = @ + 1]
  /\ IF o.ok
     THEN /\ tempFiles' = tempFiles \cup {TempPath(name)}
          /\ proc' = [proc EXCEPT ![t].pc = "updatePath",
                                  ![t].sourcePath = TempPath(name),
                                  ![t].originalName = name]
     ELSE /\ tempFiles' = tempFiles
          /\ proc' = Throw(t, o.error)
  /\ UNCHANGED <<mongoVars, tasks, images, outFiles, call, get, writes>>

\* variant of the update that replaces the row instead of setting one field
UpdateOriginalPath_Replaces(t, ok) ==
  /\ Quiet
  /\ proc[t].pc = "updatePath"
  /\ IF ok
     THEN /\ tasks' = IF t \in DOMAIN tasks
                     THEN [tasks EXCEPT ![t] =
                             [NewTask(t, PriceMin) EXCEPT !.originalPath = proc[t].sourcePath]]
                     ELSE tasks
          /\ proc' = [proc EXCEPT ![t].pc = "validate"]
     ELSE /\ tasks' = tasks
          /\ proc' = Throw(t, PlainError(DbError))
  /\ UNCHANGED <<mongoVars, images, tempFiles, outFiles, call, get, fetches, writes>>

\* Task.findOneAndUpdate({taskId}, {originalPath: sourcePath})
UpdateOriginalPath(t, ok) ==
  /\ Quiet
  /\ proc[t].pc = "updatePath"
  /\ IF ok
     THEN /\ tasks' = IF t \in DOMAIN tasks
                     THEN [tasks EXCEPT ![t].originalPath = proc[t].sourcePath]
                     ELSE tasks
          /\ proc' = [proc EXCEPT ![t].pc = "validate"]
     ELSE /\ tasks' = tasks
          /\ proc' = Throw(t, PlainError(DbError))
  /\ UNCHANGED <<mongoVars, images, tempFiles, outFiles, call, get, fetches, writes>>

\* what reading and decoding the source file can come to
Reads == {"ok", "unreadable", "undecodable"}
\* the same without the failure of readFileSync
PlainReads == {"ok", "undecodable"}

\* (size / (1024 * 1024)).toFixed(2)
ToFixed2MB(bytes) ==
  LET hundredths == (bytes \div 1048576) * 100
                      + (((bytes % 1048576) * 200 + 1048576) \div 2097152)
      cents == hundredths % 100 IN
  ToString(hundredths \div 100) \o "." \o (IF cents < 10 THEN "0" ELSE "") \o ToString(cents)

\* what the checks of processImage before its loop throw, if anything
SourceFailure(t, read) ==
  IF proc[t].sourcePath \notin tempFiles
  THEN "Source file not found: " \o proc[t].sourcePath
  ELSE IF SourceBytes(proc[t].request) > SizeLimit
  THEN "File size " \o ToFixed2MB(SourceBytes(proc[t].request))
         \o "MB exceeds maximum allowed size of " \o ToString(MaxDownloadSize) \o "MB"
  ELSE IF read = "unreadable"
  THEN "Failed to read image file: " \o proc[t].sourcePath
  ELSE IF read = "undecodable"
  THEN "Invalid image format or corrupted image file"
  ELSE Undefined

\* variant of processImage that renders the first width before it looks at the source
ValidateSource_RendersFirst(t, read) ==
  /\ Quiet
  /\ proc[t].pc = "validate"
  /\ outFiles' = outFiles \cup
       {ProcessedImage(Content(proc[t].request), proc[t].originalName, 1).path}
  /\ proc' =
       IF SourceFailure(t, read) # Undefined
       THEN Throw(t, ProcessImageFailure(SourceFailure(t, read)))
       ELSE [proc EXCEPT ![t].pc = "variant"]
  /\ UNCHANGED <<mongoVars, tasks, images, tempFiles, call, get, fetches, writes>>

\* processImage before its loop: validateSourceFile, readImageFile, getImageInfo
ValidateSource(t, read) ==
  /\ Quiet
  /\ proc[t].pc = "validate"
  /\ proc' =
       IF SourceFailure(t, read) # Undefined
       THEN Throw(t, ProcessImageFailure(SourceFailure(t, read)))
       ELSE [proc EXCEPT ![t].pc = "variant"]
  /\ UNCHANGED <<mongoVars, tasks, images, tempFiles, outFiles, call, get, fetches, writes>>

\* one pass of the loop of processImage: createImageVariant for the next width
CreateImageVariant(t, ok) ==
  /\ Quiet
  /\ proc[t].pc = "variant"
  /\ LET i == Len(proc[t].processedImages) + 1
         img == ProcessedImage(Content(proc[t].request), proc[t].originalName, i) IN
     IF ok
     THEN /\ outFiles' = outFiles \cup {img.path}
          /\ proc' = [proc EXCEPT
               ![t].processedImages = Append(@, img),
               ![t].pc = IF i = Len(Widths) THEN "insert" ELSE "variant"]
     ELSE /\ outFiles' = outFiles
          /\ proc' = Throw(t, ProcessImageFailure(WriteError))
  /\ UNCHANGED <<mongoVars, tasks, images, tempFiles, call, get, fetches, writes>>

\* variant in which a failed insertMany does not stop the step
InsertImages_Unchecked(t, k) ==
  /\ Quiet
  /\ proc[t].pc = "insert"
  /\ k \in 0..Len(proc[t].processedImages)
  /\ images' = images \cup
       {ImageDocument(t, proc[t].processedImages[j]) : j \in 1..k}
  /\ proc' = [proc EXCEPT ![t].pc = "markCompleted"]
  /\ UNCHANGED <<mongoVars, tasks, tempFiles, outFiles, call, get, fetches, writes>>

\* Image.insertMany(imageDocuments): ordered, the first k documents are written
InsertImages(t, k) ==
  /\ Quiet
  /\ proc[t].pc = "insert"
  /\ k \in 0..Len(proc[t].processedImages)
  /\ images' = images \cup
       {ImageDocument(t, proc[t].processedImages[j]) : j \in 1..k}
  /\ proc' = IF k = Len(proc[t].processedImages)
             THEN [proc EXCEPT ![t].pc = "markCompleted"]
             ELSE Throw(t, PlainError(DbError))
  /\ UNCHANGED <<mongoVars, tasks, tempFiles, outFiles, call, get, fetches, writes>>

\* variant of markTaskAsCompleted whose update also unsets originalPath
MarkTaskAsCompleted_UnsetsPath(t, ok) ==
  /\ Quiet
  /\ proc[t].pc = "markCompleted"
  /\ IF ok
     THEN /\ tasks' = IF t \in DOMAIN tasks
                     THEN [tasks EXCEPT ![t].status = "completed", ![t].completedAt = "date",
                                        ![t].originalPath = Undefined]
                     ELSE tasks
          /\ writes' = [writes EXCEPT ![t] = @ + 1]
          /\ proc' = [proc EXCEPT ![t].pc = "cleanup"]
     ELSE /\ tasks' = tasks
          /\ writes' = writes
          /\ proc' = Throw(t, PlainError(DbError))
  /\ UNCHANGED <<mongoVars, images, tempFiles, outFiles, call, get, fetches>>

\* markTaskAsCompleted: findOneAndUpdate({taskId}, {status, completedAt, updatedAt})
MarkTaskAsCompleted(t, ok) ==
  /\ Quiet
  /\ proc[t].pc = "markCompleted"
  /\ IF ok
     THEN /\ tasks' = IF t \in DOMAIN tasks
                     THEN [tasks EXCEPT ![t].status = "completed", ![t].completedAt = "date"]
                     ELSE tasks
          /\ writes' = [writes EXCEPT ![t] = @ + 1]
          /\ proc' = [proc EXCEPT ![t].pc = "cleanup"]
     ELSE /\ tasks' = tasks
          /\ writes' = writes
          /\ proc' = Throw(t, PlainError(DbError))
  /\ UNCHANGED <<mongoVars, images, tempFiles, outFiles, call, get, fetches>>

\* cleanupTempFile: the file is unlinked, or the error is logged and swallowed
CleanupTempFile(path, unlinked) ==
  tempFiles' = IF unlinked THEN tempFiles \ {path} ELSE tempFiles

\* variant in which a failed unlink is thrown instead of logged
CleanupSource_Throws(t, unlinked) ==
  /\ Quiet
  /\ proc[t].pc = "cleanup"
  /\ CleanupTempFile(proc[t].sourcePath, unlinked)
  /\ proc' = IF unlinked THEN Finished(t)
             ELSE Throw(t, PlainError("EPERM: operation not permitted, unlink"))
  /\ UNCHANGED <<mongoVars, tasks, images, outFiles, call, get, fetches, writes>>

\* last await of the try: cleanupTempFile(sourcePath), then the step returns
CleanupSource(t, unlinked) ==
  /\ Quiet
  /\ proc[t].pc = "cleanup"
  /\ CleanupTempFile(proc[t].sourcePath, unlinked)
  /\ proc' = Finished(t)
  /\ UNCHANGED <<mongoVars, tasks, images, outFiles, call, get, fetches, writes>>

\* catch of processImageAsync: the source is fetched again to learn a path;
\* when that fails the inner catch logs a warning and the first error is rethrown
Refetch(t, o, name) ==
  /\ Quiet
  /\ proc[t].pc = "refetch"
  /\ o \in FetchSource(proc[t].request)
  /\ FreshOrUsed(name)
  /\ fetches' = [fetches EXCEPT ![t] = @ + 1]
  /\ IF o.ok
     THEN /\ tempFiles' = tempFiles \cup {TempPath(name)}
          /\ proc' = [proc EXCEPT ![t].pc = "cleanupRefetched",
                                  ![t].cleanupPath = TempPath(name)]
     ELSE /\ tempFiles' = tempFiles
          /\ proc' = [proc EXCEPT ![t].pc = "markFailed"]
  /\ UNCHANGED <<mongoVars, tasks, images, outFiles, call, get, writes>>

\* variant in which a failed unlink in the catch replaces the error that is rethrown
CleanupRefetched_ReplacesError(t, unlinked) ==
  /\ Quiet
  /\ proc[t].pc = "cleanupRefetched"
  /\ CleanupTempFile(proc[t].cleanupPath, unlinked)
  /\ proc' = [proc EXCEPT ![t].pc = "markFailed", ![t].cleanupPath = Undefined,
                          ![t].error = IF unlinked THEN @
                                       ELSE "EPERM: operation not permitted, unlink"]
  /\ UNCHANGED <<mongoVars, tasks, images, outFiles, call, get, fetches, writes>>

\* catch of processImageAsync: cleanupTempFile(fileInfo.path), then throw error;
\* a failed unlink is logged by cleanupTempFile
CleanupRefetched(t, unlinked) ==
  /\ Quiet
  /\ proc[t].pc = "cleanupRefetched"
  /\ CleanupTempFile(proc[t].cleanupPath, unlinked)
  /\ proc' = [proc EXCEPT ![t].pc = "markFailed", ![t].cleanupPath = Undefined]
  /\ UNCHANGED <<mongoVars, tasks, images, outFiles, call, get, fetches, writes>>

\* variant of markTaskAsFailed that writes the status without the message
MarkTaskAsFailed_NoError(t, ok) ==
  /\ Quiet
  /\ proc[t].pc = "markFailed"
  /\ IF ok
     THEN /\ tasks' = IF t \in DOMAIN tasks
                     THEN [tasks EXCEPT ![t].status = "failed"]
                     ELSE tasks
          /\ writes' = [writes EXCEPT ![t] = @ + 1]
     ELSE /\ tasks' = tasks
          /\ writes' = writes
  /\ proc' = Finished(t)
  /\ UNCHANGED <<mongoVars, images, tempFiles, outFiles, call, get, fetches>>

\* variant of markTaskAsFailed whose filter selects on the status, not the task
MarkTaskAsFailed_AnyPending(t, ok) ==
  /\ Quiet
  /\ proc[t].pc = "markFailed"
  /\ IF ok
     THEN /\ tasks' = [u \in DOMAIN tasks |->
                       IF tasks[u].status = "pending"
                       THEN [tasks[u] EXCEPT !.status = "failed", !.error = proc[t].error]
                       ELSE tasks[u]]
          /\ writes' = [writes EXCEPT ![t] = @ + 1]
     ELSE /\ tasks' = tasks
          /\ writes' = writes
  /\ proc' = Finished(t)
  /\ UNCHANGED <<mongoVars, images, tempFiles, outFiles, call, get, fetches>>

\* catch continuation of createTask: markTaskAsFailed(taskId, error.message),
\* whose own rejection is only logged
MarkTaskAsFailed(t, ok) ==
  /\ Quiet
  /\ proc[t].pc = "markFailed"
  /\ IF ok
     THEN /\ tasks' = IF t \in DOMAIN tasks
                     THEN [tasks EXCEPT ![t].status = "failed", ![t].error = proc[t].error]
                     ELSE tasks
          /\ writes' = [writes EXCEPT ![t] = @ + 1]
     ELSE /\ tasks' = tasks
          /\ writes' = writes
  /\ proc' = Finished(t)
  /\ UNCHANGED <<mongoVars, images, tempFiles, outFiles, call, get, fetches>>

\* any step of the background unit of task t: processImageAsync and the
\* catch continuation createTask attached to it
BackgroundStep(t) ==
  \/ \E o \in FetchSource(proc[t].request), name \in ScratchNames : Fetch(t, o, name)
  \/ \E ok \in BOOLEAN : UpdateOriginalPath(t, ok)
  \/ \E read \in Reads : ValidateSource(t, read)
  \/ \E ok \in BOOLEAN : CreateImageVariant(t, ok)
  \/ \E k \in 0..Len(Widths) : InsertImages(t, k)
  \/ \E ok \in BOOLEAN : MarkTaskAsCompleted(t, ok)
  \/ \E unlinked \in BOOLEAN : CleanupSource(t, unlinked)
  \/ \E o \in FetchSource(proc[t].request), name \in ScratchNames : Refetch(t, o, name)
  \/ \E unlinked \in BOOLEAN : CleanupRefetched(t, unlinked)
  \/ \E ok \in BOOLEAN : MarkTaskAsFailed(t, ok)

\* ------------------------------------------------------------ getTask
GetTaskFailure(e) == ProcessingError("Failed to get task: " \o e.message)

\* variant of getTask that removes the Image rows of a task that is not completed
GetTaskFindOne_PrunesImages(id, ok) ==
  /\ Quiet
  /\ get.pc = "idle"
  /\ get' =
       IF ~ok
       THEN [pc |-> "done", taskId |-> id, error |-> GetTaskFailure(PlainError(DbError))]
       ELSE IF id \notin DOMAIN tasks
       THEN [pc |-> "done", taskId |-> id,
             error |-> NotFoundError("Task not found: " \o ToString(id))]
       ELSE IF tasks[id].status = "completed"
       THEN [pc |-> "find", taskId |-> id, task |-> tasks[id]]
       ELSE [pc |-> "done", taskId |-> id, task |-> tasks[id],
             result |-> MapTaskToResult(tasks[id], {})]
  /\ images' = IF ok /\ id \in DOMAIN tasks /\ tasks[id].status # "completed"
               THEN images \ ImagesOf(id)
               ELSE images
  /\ UNCHANGED <<mongoVars, tasks, tempFiles, outFiles, call, proc, fetches, writes>>

\* variant of getTask whose catch wraps the not-found error like any other
GetTaskFindOne_WrapsNotFound(id, ok) ==
  /\ Quiet
  /\ get.pc = "idle"
  /\ get' =
       IF ~ok
       THEN [pc |-> "done", taskId |-> id, error |-> GetTaskFailure(PlainError(DbError))]
       ELSE IF id \notin DOMAIN tasks
       THEN [pc |-> "done", taskId |-> id,
             error |-> GetTaskFailure(NotFoundError("Task not found: " \o ToString(id)))]
       ELSE IF tasks[id].status = "completed"
       THEN [pc |-> "find", taskId |-> id, task |-> tasks[id]]
       ELSE [pc |-> "done", taskId |-> id, task |-> tasks[id],
             result |-> MapTaskToResult(tasks[id], {})]
  /\ UNCHANGED <<mongoVars, tasks, images, tempFiles, outFiles, call, proc, fetches, writes>>

\* getTask up to the return of Task.findOne({taskId})
GetTaskFindOne(id, ok) ==
  /\ Quiet
  /\ get.pc = "idle"
  /\ get' =
       IF ~ok
       THEN [pc |-> "done", taskId |-> id, error |-> GetTaskFailure(PlainError(DbError))]
       ELSE IF id \notin DOMAIN tasks
       THEN [pc |-> "done", taskId |-> id,
             error |-> NotFoundError("Task not found: " \o ToString(id))]
       ELSE IF tasks[id].status = "completed"
       THEN [pc |-> "find", taskId |-> id, task |-> tasks[id]]
       ELSE [pc |-> "done", taskId |-> id, task |-> tasks[id],
             result |-> MapTaskToResult(tasks[id], {})]
  /\ UNCHANGED <<mongoVars, tasks, images, tempFiles, outFiles, call, proc, fetches, writes>>

\* getTask of a completed task: the return of Image.find({taskId})
GetTaskFindImages(ok) ==
  /\ Quiet
  /\ get.pc = "find"
  /\ get' =
       IF ok
       THEN [pc |-> "done", taskId |-> get.taskId, task |-> get.task,
             result |-> MapTaskToResult(get.task, ImagesOf(get.taskId))]
       ELSE [pc |-> "done", taskId |-> get.taskId,
             error |-> GetTaskFailure(PlainError(DbError))]
  /\ UNCHANGED <<mongoVars, tasks, images, tempFiles, outFiles, call, proc, fetches, writes>>

\* the caller of getTask has its answer
GetTaskReturn ==
  /\ get.pc = "done"
  /\ get' = IdleGet
  /\ UNCHANGED <<mongoVars, tasks, images, tempFiles, outFiles, call, proc, fetches, writes>>


Next ==
  \/ \E r \in NormalRequests : CreateTask(r)
  \/ CreateTaskReturn
  \/ \E t \in DOMAIN proc : \E o \in FetchSource(proc[t].request), name \in ScratchNames : Fetch(t, o, name)
  \/ \E t \in DOMAIN proc, ok \in BOOLEAN : UpdateOriginalPath(t, ok)
  \/ \E t \in DOMAIN proc, read \in PlainReads : ValidateSource(t, read)
  \/ \E t \in DOMAIN proc, ok \in BOOLEAN : CreateImageVariant(t, ok)
  \/ \E t \in DOMAIN proc, k \in 0..Len(Widths) : InsertImages(t, k)
  \/ \E t \in DOMAIN proc, ok \in BOOLEAN : MarkTaskAsCompleted(t, ok)
  \/ \E t \in DOMAIN proc, unlinked \in BOOLEAN : CleanupSource(t, unlinked)
  \/ \E t \in DOMAIN proc : \E o \in FetchSource(proc[t].request), name \in ScratchNames : Refetch(t, o, name)
  \/ \E t \in DOMAIN proc, unlinked \in BOOLEAN : CleanupRefetched(t, unlinked)
  \/ \E t \in DOMAIN proc, ok \in BOOLEAN : MarkTaskAsFailed(t, ok)
  \/ \E id \in DOMAIN proc, ok \in BOOLEAN : GetTaskFindOne(id, ok)
  \/ \E ok \in BOOLEAN : GetTaskFindImages(ok)
  \/ GetTaskReturn

Spec == Init /\ [][Next]_vars

\* two tasks in flight: the identifiers of a pair of accepted requests
PairIds == {1, 2}

PairInit == InitFor(PairIds)

PairSpec == PairInit /\ [][Next]_vars


\* ------------------------------------------------------------ output paths
\* A file name is the sequence of its characters, a path the sequence of its
\* segments.
Letters ==
  {"a", "b", "c", "d", "e", "f", "g", "h", "i", "j", "k", "l", "m",
   "n", "o", "p", "q", "r", "s", "t", "u", "v", "w", "x", "y", "z"}
CapitalLetters ==
  {"A", "B", "C", "D", "E", "F", "G", "H", "I", "J", "K", "L", "M",
   "N", "O", "P", "Q", "R", "S", "T", "U", "V", "W", "X", "Y", "Z"}
Digits == {"0", "1", "2", "3", "4", "5", "6", "7", "8", "9"}

\* the class [a-zA-Z0-9.-]
KeptCharacters == Letters \cup CapitalLetters \cup Digits \cup {".", "-"}

\* replace(/[^a-zA-Z0-9.-]/g, '_')
ReplaceOthers(name) == [k \in 1..Len(name) |-> IF name[k] \in KeptCharacters THEN name[k] ELSE "_"]

\* replace(/_{2,}/g, '_'): of every run of underscores the first one stays
RECURSIVE CollapseRuns(_)
CollapseRuns(name) ==
  IF Len(name) <= 1 THEN name
  ELSE IF name[1] = "_" /\ name[2] = "_" THEN CollapseRuns(Tail(name))
  ELSE <<name[1]>> \o CollapseRuns(Tail(name))

\* variant whose pattern is /^_/: the underscore at the end stays
TrimEnds_HeadOnly(name) ==
  IF Len(name) > 0 /\ name[1] = "_" THEN Tail(name) ELSE name

\* replace(/^_|_$/g, ''): one underscore off the head, one off the end
TrimEnds(name) ==
  LET headless == IF Len(name) > 0 /\ name[1] = "_" THEN Tail(name) ELSE name IN
  IF Len(headless) > 0 /\ headless[Len(headless)] = "_"
  THEN SubSeq(headless, 1, Len(headless) - 1)
  ELSE headless

\* sanitizeFileName
SanitizeFileName(name) == TrimEnds(CollapseRuns(ReplaceOthers(name)))

\* path.join(base, segment) for a segment without separator: the result is
\* normalised, so an empty segment and "." add nothing and ".." removes a segment
PathJoin(base, segment) ==
  IF segment \in {<<>>, <<".">>} THEN base
  ELSE IF segment = <<".", ".">>
  THEN (IF Len(base) > 0 THEN SubSeq(base, 1, Len(base) - 1) ELSE base)
  ELSE Append(base, segment)

\* path.basename(path)
Basename(path) == IF Len(path) = 0 THEN <<>> ELSE path[Len(path)]

\* values of config.storage.outputDir
OutputDirs == {<<<<"a", "p", "p">>, <<"o", "u", "t", "p", "u", "t">>>>, <<<<"s", "r", "v">>, <<"i", "m", "g", "_", "s", "t", "o", "r", "e">>>>}

\* the characters base names are made of: a kept one, the dot, the underscore
\* and one outside the class
NameCharacters == {"a", ".", "_", " "}
BaseNames == UNION {[1..n -> NameCharacters] : n \in 0..MaxNameLen}

\* processImage: path.join(this.outputDir, this.sanitizeFileName(originalName))
BaseOutputPath(outputDir, originalName) == PathJoin(outputDir, SanitizeFileName(originalName))

\* createImageVariant: where the file of width i is written, and the path it
\* returns for the store; the width and the file name are segments of their own
VariantPaths(baseOutputPath, content, i) ==
  LET filename == <<<<"md5", content, Resolution(i)>>, "jpg">> IN
  [outputPath |-> baseOutputPath \o <<Resolution(i), filename>>,
   relativePath |-> PathJoin(<<<<"o", "u", "t", "p", "u", "t">>>>, SanitizeFileName(Basename(baseOutputPath)))
                      \o <<Resolution(i), filename>>]

\* processImage called on its own, as its unit tests do: the paths of its variants
ProcessImagePaths(outputDir, originalName) ==
  /\ call.pc = "idle"
  /\ call' = [pc |-> "processImage", outputDir |-> outputDir, originalName |-> originalName,
              variants |-> [i \in 1..Len(Widths) |->
                 VariantPaths(BaseOutputPath(outputDir, originalName), "jpeg:/9j/4AAQ", i)]]
  /\ UNCHANGED <<mongoVars, tasks, images, tempFiles, outFiles, proc, get, fetches, writes>>

\* Math.round of the quotient num / den of two positive numbers
Round(num, den) == (2 * num + den) \div (2 * den)

\* width and height of the sources handed to createImageVariant
ImageInfos ==
  {[width |-> d[1], height |-> d[2]] :
     d \in {<<4000, 3000>>, <<3000, 4000>>, <<1920, 1080>>, <<1024, 768>>, <<1024, 1024>>,
            <<1000, 999>>, <<801, 600>>, <<800, 600>>, <<799, 600>>, <<640, 480>>,
            <<480, 640>>, <<100, 100>>}}

\* createImageVariant: Math.round(targetWidth * ((height || 1) / (width || 1)))
TargetHeight(imageInfo, targetWidth) ==
  LET height == IF imageInfo.height = 0 THEN 1 ELSE imageInfo.height
      width == IF imageInfo.width = 0 THEN 1 ELSE imageInfo.width IN
  Round(targetWidth * height, width)

\* sharp(...).resize(w, h, {fit: 'inside', withoutEnlargement: true}): the
\* dimensions of the encoded image; the larger of the two shrink factors is
\* applied to both sides, and a factor below one is not applied at all
ResizeInside(imageInfo, w, h) ==
  IF imageInfo.width <= w /\ imageInfo.height <= h
  THEN [width |-> imageInfo.width, height |-> imageInfo.height]
  ELSE IF imageInfo.width * h >= imageInfo.height * w
  THEN [width |-> w, height |-> Round(imageInfo.height * w, imageInfo.width)]
  ELSE [width |-> Round(imageInfo.width * h, imageInfo.height), height |-> h]

\* createImageVariant called on its own: the dimensions it renders and the
\* width and height of the record it returns
VariantSize(imageInfo, i) ==
  /\ call.pc = "idle"
  /\ LET targetWidth == Widths[i]
         targetHeight == TargetHeight(imageInfo, targetWidth) IN
     call' = [pc |-> "createImageVariant", imageInfo |-> imageInfo, targetWidth |-> targetWidth,
              encoded |-> ResizeInside(imageInfo, targetWidth, targetHeight),
              returned |-> [resolution |-> Resolution(i), width |-> targetWidth,
                            height |-> targetHeight]]
  /\ UNCHANGED <<mongoVars, tasks, images, tempFiles, outFiles, proc, get, fetches, writes>>

\* sanitizeFileName called on a name, and again on its own result, as
\* createImageVariant does with the directory name processImage sanitized
SanitizeTwice(name) ==
  /\ call.pc = "idle"
  /\ call' = [pc |-> "sanitizeFileName", filename |-> name,
              sanitized |-> SanitizeFileName(name),
              twice |-> SanitizeFileName(SanitizeFileName(name))]
  /\ UNCHANGED <<mongoVars, tasks, images, tempFiles, outFiles, proc, get, fetches, writes>>

\* the call of a unit returns
UnitReturn ==
  /\ call.pc # "idle"
  /\ call' = IdleCall
  /\ UNCHANGED <<mongoVars, tasks, images, tempFiles, outFiles, proc, get, fetches, writes>>

UnitNext ==
  \/ \E d \in OutputDirs, n \in BaseNames : ProcessImagePaths(d, n)
  \/ \E info \in ImageInfos, i \in 1..Len(Widths) : VariantSize(info, i)
  \/ \E n \in BaseNames : SanitizeTwice(n)
  \/ UnitReturn

\* the units of the services called directly, no task in flight
UnitSpec == InitFor({}) /\ [][UnitNext]_vars

\* ------------------------------------------------------------ HTTP routes
\* CreateTaskRequestSchema: the refinement accepts a body with exactly one of
\* imageUrl and imageFile (every modelled URL is well formed, every payload non-empty)
SchemaAccepts(r) ==
  /\ ~(~r.hasUrl /\ ~r.hasFile)
  /\ ~(r.hasUrl /\ r.hasFile)

\* errorHandler: the JSON body it sends for an error
ErrorHandler(error) ==
  [status |-> error.statusCode, json |-> TRUE,
   body |-> [error |-> CASE error.name = "ValidationError" -> "Validation Error"
                         [] error.name = "NotFoundError" -> "Not Found"
                         [] error.name = "ProcessingError" -> "Processing Error"
                         [] error.name = "DatabaseError" -> "Database Error"
                         [] error.name = "FileSystemError" -> "File System Error"
                         [] OTHER -> "Internal Server Error",
             message |-> error.message]]

\* the handler express falls back on: the status of the error and an HTML page
\* (outside production the page shows the stack, which starts with name and message)
DefaultErrorResponse(error) ==
  [status |-> error.statusCode, json |-> FALSE,
   body |-> [html |-> error.name \o ": " \o error.message]]

\* what createApp registers after the task routes, with the number of
\* parameters each function declares
AfterRoutes ==
  <<[handler |-> "notFound", parameters |-> 2],
    [handler |-> "errorHandler", parameters |-> 3]>>

\* next(error): express hands the error to the next function registered with
\* four parameters and skips every other one; when there is none it answers itself
ErrorResponse(error) ==
  IF \E k \in DOMAIN AfterRoutes :
       AfterRoutes[k].handler = "errorHandler" /\ AfterRoutes[k].parameters = 4
  THEN ErrorHandler(error)
  ELSE DefaultErrorResponse(error)

\* TaskController.createTask: the body is parsed by the schema, then handed to
\* the service
PostTasks(r) ==
  IF SchemaAccepts(r)
  THEN CreateTask(r)
  ELSE /\ Quiet
       /\ call' = [pc |-> "invalid", given |-> Given(r),
                   error |-> ValidationError("Invalid request data")]
       /\ UNCHANGED <<mongoVars, tasks, images, tempFiles, outFiles, proc, get, fetches, writes>>

\* the code field of the error classes
ErrorCode(error) ==
  CASE error.name = "ValidationError" -> "VALIDATION_ERROR"
    [] error.name = "NotFoundError" -> "NOT_FOUND"
    [] error.name = "ProcessingError" -> "PROCESSING_ERROR"
    [] error.name = "DatabaseError" -> "DATABASE_ERROR"
    [] error.name = "FileSystemError" -> "FILE_SYSTEM_ERROR"
    [] OTHER -> Undefined

\* res.status(201).json(...) of createTask
Created(task) ==
  [status |-> 201, json |-> TRUE,
   body |-> [success |-> TRUE,
             data |-> [taskId |-> task.taskId,
                       status |-> task.status,
                       price |-> task.price,
                       message |-> "Task created successfully. Image processing started."]]]

\* variant of createTask whose catch does not return after next(validationError)
PostTasksRespond_NoReturn ==
  /\ call.pc \in {"invalid", "rejected", "returned"}
  /\ call' = [pc |-> "responded", given |-> call.given,
              sent |-> IF call.pc = "returned" THEN <<Created(call.result["fields"])>> ELSE <<>>,
              passed |-> IF call.pc = "returned" THEN <<>>
                         ELSE IF call.pc = "invalid" THEN <<call.error, call.error>>
                         ELSE <<call.error>>,
              response |->
                IF call.pc = "returned"
                THEN Created(call.result["fields"])
                ELSE ErrorResponse(call.error)]
  /\ UNCHANGED <<mongoVars, tasks, images, tempFiles, outFiles, proc, get, fetches, writes>>

\* TaskController.createTask: 201 with the task, or next(error); sent are its
\* calls of res.json, passed its calls of next, response what the client gets
PostTasksRespond ==
  /\ call.pc \in {"invalid", "rejected", "returned"}
  /\ call' = [pc |-> "responded", given |-> call.given,
              sent |-> IF call.pc = "returned" THEN <<Created(call.result["fields"])>> ELSE <<>>,
              passed |-> IF call.pc = "returned" THEN <<>> ELSE <<call.error>>,
              response |->
                IF call.pc = "returned"
                THEN Created(call.result["fields"])
                ELSE ErrorResponse(call.error)]
  /\ UNCHANGED <<mongoVars, tasks, images, tempFiles, outFiles, proc, get, fetches, writes>>

\* req.params.taskId of a request without the parameter: identifiers are
\* numbers here, and this is the one for which !taskId holds
NoTaskId == 0

\* TaskController.getTask for a request without taskId parameter: the error is
\* thrown before the service is called
GetTaskMissingId ==
  /\ Quiet
  /\ get.pc = "idle"
  /\ get' = [pc |-> "done", taskId |-> NoTaskId,
             error |-> ValidationError("Task ID is required")]
  /\ UNCHANGED <<mongoVars, tasks, images, tempFiles, outFiles, call, proc, fetches, writes>>

\* res.status(200).json(...) of getTask
Found(task) == [status |-> 200, json |-> TRUE, body |-> [success |-> TRUE, data |-> task]]

\* TaskController.getTask: 200 with the task, or next(error)
GetTaskRespond ==
  /\ get.pc = "done"
  /\ get' = [pc |-> "responded", taskId |-> get.taskId,
             sent |-> IF "error" \in DOMAIN get THEN <<>> ELSE <<Found(get.result)>>,
             passed |-> IF "error" \in DOMAIN get THEN <<get.error>> ELSE <<>>,
             response |->
               IF "error" \in DOMAIN get
               THEN ErrorResponse(get.error)
               ELSE Found(get.result)]
  /\ UNCHANGED <<mongoVars, tasks, images, tempFiles, outFiles, call, proc, fetches, writes>>

\* the response has been sent
RouteClose ==
  /\ \/ call.pc = "responded" /\ call' = IdleCall /\ get' = get
     \/ get.pc = "responded" /\ get' = IdleGet /\ call' = call
  /\ UNCHANGED <<mongoVars, tasks, images, tempFiles, outFiles, proc, fetches, writes>>

\* the service behind its two routes, one task
SoloIds == {1}

ApiNext ==
  \/ \E r \in NormalRequests : PostTasks(r)
  \/ PostTasksRespond
  \/ \E t \in DOMAIN proc : \E o \in FetchSource(proc[t].request), name \in ScratchNames : Fetch(t, o, name)
  \/ \E t \in DOMAIN proc, ok \in BOOLEAN : UpdateOriginalPath(t, ok)
  \/ \E t \in DOMAIN proc, read \in PlainReads : ValidateSource(t, read)
  \/ \E t \in DOMAIN proc, ok \in BOOLEAN : CreateImageVariant(t, ok)
  \/ \E t \in DOMAIN proc, k \in 0..Len(Widths) : InsertImages(t, k)
  \/ \E t \in DOMAIN proc, ok \in BOOLEAN : MarkTaskAsCompleted(t, ok)
  \/ \E t \in DOMAIN proc, unlinked \in BOOLEAN : CleanupSource(t, unlinked)
  \/ \E t \in DOMAIN proc : \E o \in FetchSource(proc[t].request), name \in ScratchNames : Refetch(t, o, name)
  \/ \E t \in DOMAIN proc, unlinked \in BOOLEAN : CleanupRefetched(t, unlinked)
  \/ \E t \in DOMAIN proc, ok \in BOOLEAN : MarkTaskAsFailed(t, ok)
  \/ \E id \in DOMAIN proc, ok \in BOOLEAN : GetTaskFindOne(id, ok)
  \/ \E ok \in BOOLEAN : GetTaskFindImages(ok)
  \/ GetTaskMissingId
  \/ GetTaskRespond
  \/ RouteClose

ApiSpec == InitFor(SoloIds) /\ [][ApiNext]_vars

\* the service called directly, one task, over every source and every way the
\* source can be unfit
DetailNext ==
  \/ \E r \in DetailRequests : CreateTask(r)
  \/ CreateTaskReturn
  \/ \E t \in DOMAIN proc : \E o \in FetchSource(proc[t].request), name \in ScratchNames : Fetch(t, o, name)
  \/ \E t \in DOMAIN proc, ok \in BOOLEAN : UpdateOriginalPath(t, ok)
  \/ \E t \in DOMAIN proc, read \in Reads : ValidateSource(t, read)
  \/ \E t \in DOMAIN proc, ok \in BOOLEAN : CreateImageVariant(t, ok)
  \/ \E t \in DOMAIN proc, k \in 0..Len(Widths) : InsertImages(t, k)
  \/ \E t \in DOMAIN proc, ok \in BOOLEAN : MarkTaskAsCompleted(t, ok)
  \/ \E t \in DOMAIN proc, unlinked \in BOOLEAN : CleanupSource(t, unlinked)
  \/ \E t \in DOMAIN proc : \E o \in FetchSource(proc[t].request), name \in ScratchNames : Refetch(t, o, name)
  \/ \E t \in DOMAIN proc, unlinked \in BOOLEAN : CleanupRefetched(t, unlinked)
  \/ \E t \in DOMAIN proc, ok \in BOOLEAN : MarkTaskAsFailed(t, ok)

DetailSpec == InitFor(SoloIds) /\ [][DetailNext]_vars

\* ------------------------------------------------------------ connection manager
\* MongoConnection: connect, connectWithRetry, disconnect and the handlers of
\* the driver's events. A promise is named by the call of connectWithRetry
\* that returned it.
DefaultMaxRetries == 5
DefaultRetryDelay == 5000

\* the options connect is called with, after the defaults are filled in
ConnectOptions ==
  {[maxRetries |-> DefaultMaxRetries, retryDelay |-> DefaultRetryDelay],
   [maxRetries |-> 2, retryDelay |-> 100],
   [maxRetries |-> 0, retryDelay |-> 100]}

\* what a rejected mongoose.connect says: every attempt has an error of its own
AttemptError(attempt) == "connect ECONNREFUSED (" \o ToString(attempt) \o ")"

\* the error connectWithRetry throws after its loop
Exhausted(maxRetries, lastError) ==
  "Failed to connect to MongoDB after " \o ToString(maxRetries)
    \o " attempts. Last error: " \o lastError

Settled == {"resolved", "rejected"}

\* connectWithRetry up to its first await: the first mongoose.connect is called;
\* with no attempt to make, the loop is skipped and the promise is born rejected
ConnectWithRetry(options) ==
  IF options.maxRetries >= 1
  THEN [pc |-> "attempt", attempt |-> 1, maxRetries |-> options.maxRetries,
        retryDelay |-> options.retryDelay, sleeps |-> <<>>,
        lastError |-> Undefined, error |-> Undefined]
  ELSE [pc |-> "rejected", attempt |-> 0, maxRetries |-> options.maxRetries,
        retryDelay |-> options.retryDelay, sleeps |-> <<>>,
        lastError |-> Undefined, error |-> Exhausted(options.maxRetries, Undefined)]

\* the promise of run p settles: every connect call that awaits it goes on
Settle(p, outcome, connected) ==
  [k \in DOMAIN connects |->
     IF connects[k].promise = p /\ connects[k].outcome = "pending"
     THEN [connects[k] EXCEPT !.outcome = outcome, !.connected = connected]
     ELSE connects[k]]

\* connect(options)
Connect(options) ==
  /\ Len(connects) < MaxConnects
  /\ IF isConnected
     THEN /\ connects' = Append(connects, [promise |-> 0, outcome |-> "resolved", connected |-> TRUE])
          /\ UNCHANGED <<connectionPromise, runs>>
     ELSE IF connectionPromise # 0
     THEN /\ connects' = Append(connects,
               [promise |-> connectionPromise,
                outcome |-> IF runs[connectionPromise].pc \in Settled
                            THEN runs[connectionPromise].pc ELSE "pending",
                connected |-> isConnected])
          /\ UNCHANGED <<connectionPromise, runs>>
     ELSE /\ runs' = Append(runs, ConnectWithRetry(options))
          /\ connectionPromise' = Len(runs) + 1
          /\ connects' = Append(connects,
               [promise |-> Len(runs) + 1,
                outcome |-> IF options.maxRetries >= 1 THEN "pending" ELSE "rejected",
                connected |-> FALSE])
  /\ UNCHANGED <<serviceVars, isConnected, disconnecting, readyState, lost, handlers>>

\* connectWithRetry: the mongoose.connect of the current attempt returns
AttemptReturns(p, ok) ==
  /\ p \in DOMAIN runs
  /\ runs[p].pc = "attempt"
  /\ IF ok
     THEN /\ isConnected' = TRUE
          /\ handlers' = TRUE
          /\ readyState' = 1
          /\ lost' = FALSE
          /\ runs' = [runs EXCEPT ![p].pc = "resolved"]
          /\ connects' = Settle(p, "resolved", TRUE)
          /\ UNCHANGED connectionPromise
     ELSE IF runs[p].attempt < runs[p].maxRetries
     THEN /\ runs' = [runs EXCEPT ![p].pc = "sleep", ![p].lastError = AttemptError(runs[p].attempt),
                                  ![p].sleeps = Append(@, runs[p].retryDelay)]
          /\ UNCHANGED <<isConnected, connectionPromise, connects, readyState, lost, handlers>>
     ELSE /\ runs' = [runs EXCEPT ![p].pc = "rejected",
                                  ![p].lastError = AttemptError(runs[p].attempt),
                                  ![p].error = Exhausted(runs[p].maxRetries,
                                                         AttemptError(runs[p].attempt))]
          /\ connectionPromise' = 0
          /\ connects' = Settle(p, "rejected", isConnected)
          /\ UNCHANGED <<isConnected, readyState, lost, handlers>>
  /\ UNCHANGED <<serviceVars, disconnecting>>

\* connectWithRetry: the sleep is over, the next attempt calls mongoose.connect
Retry(p) ==
  /\ p \in DOMAIN runs
  /\ runs[p].pc = "sleep"
  /\ runs' = [runs EXCEPT ![p].pc = "attempt", ![p].attempt = @ + 1]
  /\ UNCHANGED <<serviceVars, isConnected, connectionPromise, connects, disconnecting,
                 readyState, lost, handlers>>

\* disconnect() while connected, up to its await (when not connected it returns
\* at once and changes nothing)
Disconnect ==
  /\ isConnected
  /\ disconnecting < MaxDisconnects
  /\ disconnecting' = disconnecting + 1
  /\ UNCHANGED <<serviceVars, isConnected, connectionPromise, runs, connects, readyState,
                 lost, handlers>>

\* disconnect(): mongoose.disconnect() returns
DisconnectReturns(ok) ==
  /\ disconnecting > 0
  /\ disconnecting' = disconnecting - 1
  /\ IF ok
     THEN /\ isConnected' = FALSE
          /\ connectionPromise' = 0
          /\ readyState' = 0
          /\ lost' = FALSE
     ELSE UNCHANGED <<isConnected, connectionPromise, readyState, lost>>
  /\ UNCHANGED <<serviceVars, runs, connects, handlers>>

\* handler of 'error'
OnError ==
  /\ handlers
  /\ isConnected' = FALSE
  /\ UNCHANGED <<serviceVars, connectionPromise, runs, connects, disconnecting, readyState,
                 lost, handlers>>

\* handler of 'disconnected': the driver has lost a connection it had
OnDisconnected ==
  /\ handlers
  /\ readyState = 1
  /\ isConnected' = FALSE
  /\ readyState' = 0
  /\ lost' = TRUE
  /\ UNCHANGED <<serviceVars, connectionPromise, runs, connects, disconnecting, handlers>>

\* handler of 'reconnected': the driver has the lost connection back
OnReconnected ==
  /\ handlers
  /\ lost
  /\ isConnected' = TRUE
  /\ readyState' = 1
  /\ lost' = FALSE
  /\ UNCHANGED <<serviceVars, connectionPromise, runs, connects, disconnecting, handlers>>

MongoNext ==
  \/ \E options \in ConnectOptions : Connect(options)
  \/ \E p \in DOMAIN runs, ok \in BOOLEAN : AttemptReturns(p, ok)
  \/ \E p \in DOMAIN runs : Retry(p)
  \/ Disconnect
  \/ \E ok \in BOOLEAN : DisconnectReturns(ok)
  \/ OnError
  \/ OnDisconnected
  \/ OnReconnected

\* the connection manager on its own, no task in flight
MongoSpec == InitFor({}) /\ [][MongoNext]_vars

\* ------------------------------------------------------------ properties
Terminal == {"completed", "failed"}

InvalidGiven == {<<FALSE, FALSE>>, <<TRUE, TRUE>>}

ImagesIn(rows, taskId) == {i \in rows : i.taskId = taskId}

\* the rows a completed run of task t must have inserted: one per width
ExpectedResolutions == {Resolution(i) : i \in 1..Len(Widths)}

\* C1: a row is created pending, and once its status is completed or failed
\* no step changes the status or removes the row.
C1_TerminalIsFinal ==
  [][\A t \in TaskIds :
       /\ (t \notin DOMAIN tasks /\ t \in DOMAIN tasks') => tasks'[t].status = "pending"
       /\ t \in DOMAIN tasks =>
            /\ t \in DOMAIN tasks'
            /\ tasks[t].status \in Terminal => tasks'[t].status = tasks[t].status]_vars

C1_Witness ==
  \E t \in DOMAIN tasks :
    tasks[t].status = "completed" /\ proc[t].pc = "done" /\ writes[t] = 1

\* C2: createTask called with neither source or with both fails with an
\* error of the ValidationError kind (status code 400).
C2_RejectedAsValidationError ==
  (call.pc = "rejected" /\ call.given \in InvalidGiven) =>
     (call.error.name = "ValidationError" /\ call.error.statusCode = 400)

C5_SaveBeforeProcessing ==
  /\ [](\A t \in TaskIds :
          (proc[t].pc # "idle" \/ fetches[t] > 0) => t \in DOMAIN tasks)
  /\ []((call.pc = "rejected" /\ call.given \notin InvalidGiven) =>
          call.error.message \in
            {"Failed to create task: " \o m : m \in {DbError, DuplicateKeyError}})
  /\ [](call.pc = "returned" => call.result.fields.status = "pending")
  /\ [][call'.pc = "rejected" => proc' = proc]_vars

C5_Witness ==
  /\ call.pc = "rejected"
  /\ call.given = <<TRUE, FALSE>>
  /\ call.error.message = "Failed to create task: Database error"
  /\ tasks = <<>>
  /\ \A t \in TaskIds : proc[t].pc = "idle"

\* C6: when the background step has failed, the step that ends it leaves the
\* task failed with the message of the error that aborted the pipeline.
C6_FailureIsRecorded ==
  [][\A t \in TaskIds :
       (proc[t].pc = "markFailed" /\ proc'[t].pc = "done") =>
          /\ tasks'[t].status = "failed"
          /\ tasks'[t].error = proc[t].error]_vars

\* C7: a task whose background step is over is completed or failed.
C7_FinishedIsTerminal ==
  \A t \in TaskIds : proc[t].pc = "done" => tasks[t].status \in Terminal

\* C8: the source of a task is fetched at most once.
C8_OneFetchPerTask == \A t \in TaskIds : fetches[t] <= 1

\* C9: the render starts only after the fetch has written the scratch file
\* and the path is stored, rows are inserted only when every width is
\* rendered, and the status becomes completed only with a row for every width.
C9_Sequential ==
  [][\A t \in TaskIds :
       /\ (proc[t].pc = "fetch" /\ proc'[t].pc = "updatePath") =>
            proc'[t].sourcePath \in tempFiles'
       /\ (proc'[t].pc = "validate" /\ proc[t].pc # "validate") =>
            (proc[t].pc = "updatePath" /\ fetches[t] = 1)
       /\ (proc'[t].pc = "variant" /\ proc[t].pc # "variant") => proc[t].pc = "validate"
       /\ ImagesIn(images', t) # ImagesIn(images, t) =>
            (proc[t].pc = "insert" /\ Len(proc[t].processedImages) = Len(Widths))
       /\ (t \in DOMAIN tasks /\ tasks[t].status # "completed"
             /\ tasks'[t].status = "completed") =>
            /\ proc[t].pc = "markCompleted"
            /\ {i.resolution : i \in ImagesIn(images, t)} = ExpectedResolutions]_vars

C9_Witness ==
  \E t \in DOMAIN tasks :
    /\ tasks[t].status = "completed"
    /\ {i.resolution : i \in ImagesOf(t)} = ExpectedResolutions
    /\ proc[t].pc = "cleanup"

\* C10: the value of getTask has an images field exactly when its status is
\* completed, and then it lists every Image row of the task; for a pending or
\* failed task there is no images field, whatever rows are stored.
C10_ImagesIffCompleted ==
  (get.pc = "done" /\ "result" \in DOMAIN get) =>
    /\ ("images" \in DOMAIN get.result) <=> (get.result.fields.status = "completed")
    /\ get.result.fields.status = "completed" =>
         get.result.images =
           {[resolution |-> i.resolution, path |-> i.path, md5 |-> i.md5] :
              i \in ImagesOf(get.taskId)}

C10_Witness ==
  /\ get.pc = "done"
  /\ "result" \in DOMAIN get
  /\ get.result.fields.status = "failed"
  /\ ImagesOf(get.taskId) # {}
  /\ "images" \notin DOMAIN get.result

\* C11 (as claimed): getTask for an identifier without a row always fails with
\* NotFoundError, whose message names the identifier.
C11_UnknownIsNotFound ==
  (get.pc = "done" /\ get.taskId \notin DOMAIN tasks) =>
    /\ "result" \notin DOMAIN get
    /\ get.error.name = "NotFoundError"
    /\ get.error.message = "Task not found: " \o ToString(get.taskId) \o " not found"

\* C11 (amended): getTask for an identifier without a row never returns a
\* result; it fails with NotFoundError (404) naming the identifier, or, when
\* the Task read itself fails, with ProcessingError "Failed to get task: ...".
C11_UnknownIsNotFoundOrReadFailure ==
  (get.pc = "done" /\ get.taskId \notin DOMAIN tasks) =>
    /\ "result" \notin DOMAIN get
    /\ \/ /\ get.error.name = "NotFoundError"
          /\ get.error.statusCode = 404
          /\ get.error.message = "Task not found: " \o ToString(get.taskId) \o " not found"
       \/ get.error = ProcessingError("Failed to get task: " \o DbError)

C11_Witness ==
  /\ get.pc = "done"
  /\ get.taskId \notin DOMAIN tasks
  /\ get.error.name = "NotFoundError"

\* C12: a getTask result that shows completed lists exactly one variant per
\* configured width (labels "1024" and "800"), each with a 32-character hash,
\* however the reads interleave with the background step.
C12_CompletedHasEveryVariant ==
  (get.pc = "done" /\ "result" \in DOMAIN get
     /\ get.result.fields.status = "completed") =>
    /\ {i.resolution : i \in get.result.images} = {"1024", "800"}
    /\ Cardinality(get.result.images) = Len(Widths)
    /\ \A i \in get.result.images : HexLength(i.md5) = 32

C12_Witness ==
  /\ get.pc = "done"
  /\ "result" \in DOMAIN get
  /\ get.result.fields.status = "completed"
  /\ Cardinality(get.result.images) = 2
  /\ proc[get.taskId].pc = "cleanup"

\* C13: a task read through getTask has a non-empty error exactly when its
\* status is failed; a pending or completed task has no error.
C13_ErrorIffFailed ==
  (get.pc = "done" /\ "result" \in DOMAIN get) =>
    LET res == get.result.fields IN
    /\ res.status = "failed" => (res.error # Undefined /\ res.error # "")
    /\ res.status \in {"pending", "completed"} => res.error = Undefined

C13_Witness ==
  /\ get.pc = "done"
  /\ "result" \in DOMAIN get
  /\ get.result.fields.status = "failed"
  /\ get.result.fields.error = "Failed to process image: Invalid image format or corrupted image file"

\* C14: completedAt is absent while a task is pending and is set on every
\* task whose status is completed or failed.
C14_CompletedAtIffTerminal ==
  \A t \in DOMAIN tasks :
    /\ tasks[t].status = "pending" => tasks[t].completedAt = Undefined
    /\ tasks[t].status \in Terminal => tasks[t].completedAt # Undefined

\* C15: the price of a row never changes after createTask returned it, and
\* every getTask result carries the price of the row.
C15_PriceIsImmutable ==
  /\ [][\A t \in DOMAIN tasks : tasks'[t].price = tasks[t].price]_vars
  /\ [][(call'.pc = "returned" /\ call.pc # "returned") =>
          call'.result.fields.price = tasks'[call'.result.fields.taskId].price]_vars
  /\ []((get.pc = "done" /\ "result" \in DOMAIN get) =>
          get.result.fields.price = tasks[get.taskId].price)

C15_Witness ==
  /\ get.pc = "done"
  /\ "result" \in DOMAIN get
  /\ get.result.fields.status = "completed"
  /\ get.result.fields.price = 50
  /\ tasks[get.taskId].originalPath # Undefined

\* C16: no step of a getTask call (found, not found or failing) changes the
\* Task rows, the Image rows, the scratch files or the output files, also
\* while a background step is in flight.
C16_GetTaskWritesNothing ==
  [][get' # get =>
       /\ tasks' = tasks
       /\ images' = images
       /\ tempFiles' = tempFiles
       /\ outFiles' = outFiles]_vars

C16_Witness ==
  /\ get.pc = "done"
  /\ "result" \in DOMAIN get
  /\ get.result.fields.status = "pending"
  /\ proc[get.taskId].pc = "insert"
  /\ outFiles # {}
  /\ tempFiles # {}

C19_FetchFailsAsProcessingError ==
  \A t \in DOMAIN proc :
    proc[t].pc \in {"fetch", "refetch"} =>
      \A o \in FetchSource(proc[t].request) : ~o.ok => o.error.name = "ProcessingError"

\* the request carries an inline payload that is not data:<mime>;base64,<data>
Malformed(r) == r.hasFile /\ ~MatchesBase64(r.imageFile)

\* C20: a task whose inline payload is malformed is accepted as pending; no
\* step of its background unit writes a scratch file, an output file or an
\* Image row; and when its background unit ends, its row is failed with a
\* non-empty error, so that every later getTask shows failed without images.
C20_MalformedPayloadFails ==
  /\ [][\A t \in DOMAIN proc :
          (proc[t].pc = "idle" /\ proc'[t].pc # "idle" /\ Malformed(proc'[t].request)) =>
             (call'.pc = "returned" /\ tasks'[t].status = "pending")]_vars
  /\ [][\A t \in DOMAIN proc :
          (Malformed(proc[t].request) /\ proc'[t] # proc[t]) =>
             (tempFiles' = tempFiles /\ outFiles' = outFiles /\ images' = images)]_vars
  /\ [][\A t \in DOMAIN proc :
          (Malformed(proc[t].request) /\ proc'[t].pc = "done") =>
             /\ tasks'[t].status = "failed"
             /\ tasks'[t].error \notin {Undefined, ""}
             /\ MapTaskToResult(tasks'[t], ImagesOf(t)) =
                  [r \in {"fields"} |-> MapTaskFields(tasks'[t])]]_vars

\* C21: a failure of cleanup never changes the outcome. On the success path the
\* step that cleans up, whether or not the file was unlinked, ends the background
\* step and leaves the Task row (completed) and its Image rows as they were. On
\* the failure path the steps of the catch keep the error of the pipeline, write
\* nothing to the store and are taken once each, and the failure write records
\* exactly that error.
C21_CleanupNeverChangesOutcome ==
  [][\A t \in DOMAIN proc :
       /\ (proc[t].pc = "cleanup" /\ proc'[t] # proc[t]) =>
             /\ proc'[t].pc = "done"
             /\ tasks' = tasks /\ images' = images
             /\ (t \in DOMAIN tasks => tasks[t].status = "completed")
       /\ (proc[t].pc = "refetch" /\ proc'[t] # proc[t]) =>
             /\ proc'[t].pc \in {"cleanupRefetched", "markFailed"}
             /\ proc'[t].error = proc[t].error
             /\ tasks' = tasks /\ images' = images
       /\ (proc[t].pc = "cleanupRefetched" /\ proc'[t] # proc[t]) =>
             /\ proc'[t].pc = "markFailed"
             /\ proc'[t].error = proc[t].error
             /\ tasks' = tasks /\ images' = images
       /\ (proc[t].pc = "markFailed" /\ t \in DOMAIN tasks /\ tasks'[t] # tasks[t]) =>
             /\ tasks'[t].status = "failed"
             /\ tasks'[t].error = proc[t].error]_vars

\* a task recorded failed although the unlink of the catch failed: the file it
\* fetched again is still in the scratch directory next to the first one
C21_Witness ==
  \E t \in DOMAIN tasks :
    /\ tasks[t].status = "failed"
    /\ proc[t].pc = "done"
    /\ tasks[t].originalPath \in tempFiles
    /\ Cardinality(tempFiles) = 2

C23_StoredPathNamesWrittenFile ==
  call.pc = "processImage" =>
    \A i \in 1..Len(Widths) :
      LET v == call.variants[i]
          name == SanitizeFileName(call.originalName) IN
      /\ Len(v.outputPath) = Len(call.outputDir) + 3
      /\ SubSeq(v.outputPath, 1, Len(call.outputDir)) = call.outputDir
      /\ v.outputPath[Len(call.outputDir) + 1] = name
      /\ Len(v.relativePath) = 4
      /\ v.relativePath[2] = name
      /\ v.relativePath[3] = v.outputPath[Len(v.outputPath) - 1]
      /\ v.relativePath[4] = v.outputPath[Len(v.outputPath)]

\* C26: once a task is terminal and its cleanup raised no error, the scratch file
\* recorded as its source is gone: removed by the last step of the success path,
\* and by the catch on every failure path after the fetch. The cleanup raised no
\* error when the unlink of the success path removed its file, and, for a task
\* with an inline source (whose second fetch cannot fail), when the scratch
\* directory holds no file besides the recorded one at the end of the catch.
C26_NoScratchLeftBehind ==
  [][\A t \in DOMAIN tasks :
       (/\ proc'[t].pc = "done"
        /\ tasks'[t].status \in Terminal
        /\ \/ proc[t].pc = "cleanup" /\ proc[t].sourcePath \notin tempFiles'
           \/ /\ proc[t].pc = "markFailed"
              /\ proc[t].request.hasFile
              /\ tempFiles \subseteq {tasks[t].originalPath})
       => (tasks'[t].originalPath = Undefined \/ tasks'[t].originalPath \notin tempFiles')]_vars

\* the message processImage throws when the write of a variant failed
RenderFailed == ProcessImageFailure(WriteError).message

\* C27: when the rendering of a width fails, the background step ends with the
\* task recorded failed and without any Image row for it.
C27_RenderFailureIsRecorded ==
  [][\A t \in DOMAIN tasks :
       (proc[t].pc = "markFailed" /\ proc[t].error = RenderFailed /\ proc'[t].pc = "done")
       => (tasks'[t].status = "failed" /\ {i \in images' : i.taskId = t} = {})]_vars

\* C24: POST /tasks with no source or with both is answered with HTTP 400 and a
\* JSON body whose error is "Validation Error" and whose message is "Invalid
\* request data".
C24_InvalidBodyIs400 ==
  (call.pc = "responded" /\ call.given \in InvalidGiven) =>
    /\ call.response.status = 400
    /\ call.response.json
    /\ call.response.body.error = "Validation Error"
    /\ call.response.body.message = "Invalid request data"

\* C25: GET /tasks/:taskId for an identifier without a task is answered with HTTP
\* 404 and a JSON body whose error is "Not Found" and whose message names the
\* identifier.
C25_UnknownIdIs404 ==
  [][(/\ get.pc = "done" /\ get'.pc = "responded"
      /\ "error" \in DOMAIN get /\ get.error.name = "NotFoundError")
     => /\ get'.response.status = 404
        /\ get'.response.json
        /\ get'.response.body.error = "Not Found"
        /\ get'.response.body.message
             = "Task not found: " \o ToString(get.taskId) \o " not found"]_vars

DeclaredBytes(r) ==
  IF ~r.hasFile /\ r.hasUrl /\ ResponseOf(r.imageUrl).hasLength
  THEN ResponseOf(r.imageUrl).contentLength
  ELSE 0

\* the source of r passes every check made before the size checks
WellTyped(r) ==
  IF r.hasFile
  THEN MatchesBase64(r.imageFile) /\ r.imageFile.mime \in AllowedImageTypes
  ELSE /\ r.hasUrl
       /\ ResponseOf(r.imageUrl).ok
       /\ ResponseOf(r.imageUrl).contentType \in AllowedImageTypes

\* the errors a fetch of an oversized source of r may end with: the size error of
\* its path, or the failure of the transport on the URL path
OversizeErrors(r) ==
  IF r.hasFile
  THEN {"Failed to save base64 file: File size exceeds maximum allowed size of "
          \o ToString(MaxDownloadSize) \o "MB"}
  ELSE {"Failed to download file from URL: File size exceeds maximum allowed size of "
          \o ToString(MaxDownloadSize) \o "MB",
        "Failed to download file from URL: fetch failed"}

\* C29: a source is written to the scratch directory only if its size is within
\* maxDownloadSize * 1024 * 1024 bytes. A fetch whose declared content-length or
\* whose received bytes (URL path), or whose decoded bytes (inline path), exceed
\* the limit fails with an error that cites the limit in MB; a source of exactly
\* the limit is accepted.
C29_SizeLimit ==
  [][\A t \in DOMAIN proc :
       LET r == proc[t].request
           over == SourceBytes(r) > SizeLimit \/ DeclaredBytes(r) > SizeLimit IN
       (proc[t].pc \in {"fetch", "refetch"} /\ proc'[t] # proc[t]) =>
         /\ (proc'[t].pc \in {"updatePath", "cleanupRefetched"} => ~over)
         /\ (over => tempFiles' = tempFiles)
         /\ (proc[t].pc = "fetch" /\ over /\ WellTyped(r)) =>
               (proc'[t].pc = "refetch" /\ proc'[t].error \in OversizeErrors(r))
         /\ (WellTyped(r) /\ ~over) => [ok |-> TRUE] \in FetchSource(r)]_vars

\* a task failed on the size of the source it downloaded, both times it fetched
\* it, and nothing was written to the scratch directory
C29_Witness ==
  \E t \in DOMAIN tasks :
    /\ tasks[t].status = "failed"
    /\ tasks[t].error = "Failed to download file from URL: File size exceeds maximum allowed size of 25MB"
    /\ tempFiles = {}
    /\ fetches[t] = 2

\* the source of r declares no content type, or one that is not allowed
IllTyped(r) ==
  IF r.hasFile
  THEN r.imageFile.scheme /\ r.imageFile.marker /\ r.imageFile.mime \notin AllowedImageTypes
  ELSE /\ r.hasUrl
       /\ ResponseOf(r.imageUrl).ok
       /\ ResponseOf(r.imageUrl).contentType \notin AllowedImageTypes

\* C30: a source whose declared content type is missing or not allowed is
\* rejected on both paths before any scratch file is written, and the task ends
\* failed.
C30_IllTypedSourceFails ==
  [][\A t \in DOMAIN proc :
       IllTyped(proc[t].request) =>
         /\ (proc[t].pc \in {"fetch", "refetch"} /\ proc'[t] # proc[t]) =>
               (tempFiles' = tempFiles /\ proc'[t].pc \in {"refetch", "markFailed"})
         /\ (proc[t].pc = "markFailed" /\ proc'[t].pc = "done") =>
               (t \in DOMAIN tasks' /\ tasks'[t].status = "failed")]_vars

\* the failure of validateSourceFile for a scratch file that is no longer there
SourceNotFound(path) == ProcessImageFailure("Source file not found: " \o path).message

\* C31: two tasks in flight never share a scratch path, so no task ever fails
\* with "Source file not found": between its fetch and its render no step of
\* another task removes the file it fetched.
C31_ScratchIsNeverTakenAway ==
  \A t \in DOMAIN proc :
    /\ \A n \in ScratchNames : proc[t].error # SourceNotFound(TempPath(n))
    /\ t \in DOMAIN tasks =>
         \A n \in ScratchNames : tasks[t].error # SourceNotFound(TempPath(n))

\* the messages of a fetch that did not succeed
FetchErrors ==
  {o.error.message : o \in {f \in UNION {FetchSource(r) : r \in Requests \cup DetailRequests} : ~f.ok}}

C33_ReportedSizeIsEncodedSize ==
  call.pc = "createImageVariant" =>
    /\ call.encoded.width <= call.targetWidth
    /\ call.encoded.width <= call.imageInfo.width
    /\ call.encoded.height = Round(call.encoded.width * call.imageInfo.height, call.imageInfo.width)
    /\ call.returned.width = call.encoded.width
    /\ call.returned.height = call.encoded.height

\* C34: the result of sanitizeFileName holds only letters, digits, '.', '-' and
\* '_', has no two '_' in a row, neither starts nor ends with '_', and
\* sanitizing it again changes nothing.
C34_SanitizedShape ==
  call.pc = "sanitizeFileName" =>
    LET s == call.sanitized IN
    /\ \A k \in 1..Len(s) : s[k] \in KeptCharacters \cup {"_"}
    /\ \A k \in 1..(Len(s) - 1) : ~(s[k] = "_" /\ s[k + 1] = "_")
    /\ Len(s) > 0 => (s[1] # "_" /\ s[Len(s)] # "_")
    /\ call.twice = s

\* a name with a character outside the class between two kept ones: the result
\* has one underscore in its place
C34_Witness ==
  /\ call.pc = "sanitizeFileName"
  /\ Len(call.filename) = 3
  /\ call.filename[2] = " "
  /\ call.sanitized = <<"a", "_", "a">>

\* C35: each controller action ends with exactly one call of res.json or of next.
\* createTask sends 201 with taskId, status, price and the message for the task
\* the service returned, and hands an error of the service to next as it is; a
\* body the schema refuses goes to next as a VALIDATION_ERROR and the service is
\* not called. getTask sends 200 with the task the service returned, and hands
\* an error of the service to next as it is; a request without task id goes to
\* next as a VALIDATION_ERROR and the service is not called.
C35_RespondsOrPassesError ==
  [][/\ (call.pc \in {"invalid", "rejected", "returned"} /\ call'.pc = "responded") =>
          /\ Len(call'.sent) + Len(call'.passed) = 1
          /\ call.pc = "returned" =>
               /\ call'.sent[1].status = 201
               /\ call'.sent[1].body.data =
                    [taskId |-> call.result["fields"].taskId,
                     status |-> call.result["fields"].status,
                     price |-> call.result["fields"].price,
                     message |-> "Task created successfully. Image processing started."]
          /\ call.pc = "rejected" => call'.passed = <<call.error>>
          /\ call.pc = "invalid" =>
               /\ ErrorCode(call'.passed[1]) = "VALIDATION_ERROR"
               /\ call'.passed[1].message = "Invalid request data"
     /\ (call.pc = "idle" /\ call'.pc \in {"invalid", "rejected", "returned"}) =>
          /\ (call'.pc = "invalid") <=> (call'.given \in InvalidGiven)
          /\ call'.pc = "invalid" => UNCHANGED <<tasks, images, tempFiles, outFiles, proc, fetches, writes>>
     /\ (get.pc = "done" /\ get'.pc = "responded") =>
          /\ Len(get'.sent) + Len(get'.passed) = 1
          /\ IF "error" \in DOMAIN get
             THEN get'.passed = <<get.error>>
             ELSE get'.sent[1].status = 200 /\ get'.sent[1].body.data = get.result
     /\ (get.pc = "idle" /\ get'.pc = "done" /\ get'.taskId = NoTaskId) =>
          /\ "error" \in DOMAIN get'
          /\ ErrorCode(get'.error) = "VALIDATION_ERROR"
          /\ UNCHANGED <<tasks, images, tempFiles, outFiles, proc, fetches, writes>>]_vars

\* the controller has passed an error of the service to next
C35_Witness ==
  /\ call.pc = "responded"
  /\ call.given \notin InvalidGiven
  /\ call.sent = <<>>
  /\ Len(call.passed) = 1
  /\ call.passed[1].name = "ProcessingError"

\* C36: a run of connectWithRetry makes at most maxRetries attempts, sleeps
\* retryDelay after every failed attempt but the last, and makes no attempt after
\* one that succeeded; when all have failed its error names maxRetries and the
\* error of the last attempt; and no connect call is handed the promise of a
\* run that had already been rejected.
C36_BoundedRetriesThenFresh ==
  /\ [](\A p \in DOMAIN runs :
          LET r == runs[p] IN
          /\ r.attempt <= r.maxRetries
          /\ Len(r.sleeps) = (IF r.pc = "sleep" THEN r.attempt ELSE r.attempt - 1)
               \/ r.attempt = 0
          /\ \A k \in DOMAIN r.sleeps : r.sleeps[k] = r.retryDelay
          /\ r.pc = "rejected" =>
               /\ r.attempt = r.maxRetries
               /\ r.error = Exhausted(r.maxRetries, r.lastError)
               /\ r.attempt >= 1 => r.lastError = AttemptError(r.attempt))
  /\ [][/\ \A p \in DOMAIN runs : runs[p].pc \in Settled => runs'[p] = runs[p]
        /\ Len(connects') > Len(connects) =>
             LET c == connects'[Len(connects')] IN
             c.promise \in DOMAIN runs => runs[c.promise].pc # "rejected"]_vars

\* C37: every connect call that resolved found the manager connected at that
\* moment, also when it was made after an 'error' or 'disconnected' event or
\* after a disconnect.
C37_ResolvedMeansConnected ==
  \A k \in DOMAIN connects : connects[k].outcome = "resolved" => connects[k].connected

\* a run that has neither returned nor thrown
InProgress(p) == runs[p].pc \in {"attempt", "sleep"}

\* C38: a connect call made while a run of connectWithRetry is in progress starts
\* no run and is handed the promise of the run in progress, whose outcome it
\* gets; a connect call made while connected starts no run and no attempt.
C38_SingleFlight ==
  /\ [](\A k \in DOMAIN connects :
          (connects[k].promise # 0 /\ runs[connects[k].promise].pc \in Settled) =>
             connects[k].outcome = runs[connects[k].promise].pc)
  /\ [][Len(connects') > Len(connects) =>
          /\ \A p \in DOMAIN runs :
               InProgress(p) => (runs' = runs /\ connects'[Len(connects')].promise = p)
          /\ isConnected => (runs' = runs /\ connects'[Len(connects')].promise = 0)]_vars

====
